---- MODULE Spec2Model ----
(***************************************************************************)
(* Model of the GraphQL forwarding proxy, server/api/graphql-proxy.post.ts *)
(* (the current route, lines 1-203 of the file), with the configuration    *)
(* it reads from playground.config.ts.                                     *)
(*                                                                         *)
(* Strings the code inspects character by character (hostnames, header     *)
(* names, header values, URL paths) are sequences of one-character         *)
(* strings; strings the code only compares for equality (origins, status   *)
(* messages) are TLA+ strings.                                             *)
(***************************************************************************)
EXTENDS Integers, Sequences, FiniteSets, TLC

(***************************************************************************)
(* Bounds of the model.                                                    *)
(***************************************************************************)
\* largest number of entries in a client-supplied header map
MaxHeaders == 2

\* the most outbound requests one call of $fetch is followed through
MaxRequests == 3

\* the numbers among the values of variables are -MaxNumber..MaxNumber
MaxNumber == 5

\* the most tabs the workspace store is made to create
MaxTabs == 2
MaxAdded == 52
MaxElsewhere == 1
MaxFetches == 3
MaxCalls == 3
MaxUses == 4

(***************************************************************************)
(* JavaScript string primitives used by the route.                         *)
(***************************************************************************)
None == "none"

\* the sentinel for JavaScript's NaN (Number never yields a negative here:
\* the hostnames of the model hold no sign character)
NaN == 0 - 1

Digits == <<"0", "1", "2", "3", "4", "5", "6", "7", "8", "9">>

IsDigit(c) == \E i \in 1..10 : Digits[i] = c

DigitValue(c) == (CHOOSE i \in 1..10 : Digits[i] = c) - 1

\* String.prototype.startsWith
StartsWith(s, prefix) ==
    /\ Len(s) >= Len(prefix)
    /\ SubSeq(s, 1, Len(prefix)) = prefix

\* String.prototype.includes
Includes(s, sub) ==
    \E i \in 1..(Len(s) + 1) :
        /\ i + Len(sub) - 1 <= Len(s)
        /\ SubSeq(s, i, i + Len(sub) - 1) = sub

\* String.prototype.split with a one-character separator: the pieces between
\* the separators, empty pieces included
RECURSIVE SplitAt(_, _, _, _)
SplitAt(s, sep, i, cur) ==
    IF i > Len(s) THEN <<cur>>
    ELSE IF s[i] = sep THEN <<cur>> \o SplitAt(s, sep, i + 1, <<>>)
    ELSE SplitAt(s, sep, i + 1, Append(cur, s[i]))

Split(s, sep) == SplitAt(s, sep, 1, <<>>)

\* Number(string) for the strings a split hostname holds: the empty string is
\* 0, a run of decimal digits is its value, anything else is NaN
RECURSIVE DecimalValue(_, _)
DecimalValue(s, acc) ==
    IF s = <<>> THEN acc
    ELSE DecimalValue(Tail(s), acc * 10 + DigitValue(Head(s)))

Number(s) ==
    IF \A i \in 1..Len(s) : IsDigit(s[i]) THEN DecimalValue(s, 0) ELSE NaN

Upper == <<"A", "B", "C", "D", "E", "F", "G", "H", "I", "J", "K", "L", "M",
           "N", "O", "P", "Q", "R", "S", "T", "U", "V", "W", "X", "Y", "Z">>
Lower == <<"a", "b", "c", "d", "e", "f", "g", "h", "i", "j", "k", "l", "m",
           "n", "o", "p", "q", "r", "s", "t", "u", "v", "w", "x", "y", "z">>

LowerChar(c) ==
    IF \E i \in 1..26 : Upper[i] = c
    THEN Lower[CHOOSE i \in 1..26 : Upper[i] = c]
    ELSE c

\* String.prototype.toLowerCase
ToLowerCase(s) == [i \in 1..Len(s) |-> LowerChar(s[i])]

(***************************************************************************)
(* Configuration: playgroundConfig.proxy.                                  *)
(***************************************************************************)
ALLOWED_ORIGINS ==
    {"https://playground.icjia.app", "https://icjia-graphql-playground.netlify.app"}

ALLOWED_HEADERS ==
    { <<"a","u","t","h","o","r","i","z","a","t","i","o","n">>,
      <<"c","o","n","t","e","n","t","-","t","y","p","e">>,
      <<"a","c","c","e","p","t">>,
      <<"x","-","a","p","i","-","k","e","y">>,
      <<"x","-","r","e","q","u","e","s","t","-","i","d">> }

BLOCKED_HOSTNAMES ==
    { <<"l","o","c","a","l","h","o","s","t">>,
      <<"1","2","7",".","0",".","0",".","1">>,
      <<"0",".","0",".","0",".","0">>,
      <<"[",":",":","1","]">>,
      <<"m","e","t","a","d","a","t","a",".","g","o","o","g","l","e",".",
        "i","n","t","e","r","n","a","l">>,
      <<"1","6","9",".","2","5","4",".","1","6","9",".","2","5","4">> }

MAX_QUERY_LENGTH == 100000

REQUEST_TIMEOUT == 30000

MAX_ENTRIES == 50

(***************************************************************************)
(* isPrivateIP                                                             *)
(***************************************************************************)
MappedPrefix == <<":", ":", "f", "f", "f", "f", ":">>

isPrivateIP(hostname) ==
    LET normalized == IF StartsWith(hostname, MappedPrefix)
                      THEN SubSeq(hostname, 8, Len(hostname))
                      ELSE hostname
        pieces == Split(normalized, ".")
        parts == [i \in 1..Len(pieces) |-> Number(pieces[i])]
    IN  IF Len(parts) # 4 \/ (\E i \in 1..Len(parts) : parts[i] = NaN) THEN FALSE
        ELSE LET a == parts[1]
                 b == parts[2]
             IN  IF a = 10 THEN TRUE
                 ELSE IF a = 127 THEN TRUE
                 ELSE IF a = 172 /\ b >= 16 /\ b <= 31 THEN TRUE
                 ELSE IF a = 192 /\ b = 168 THEN TRUE
                 ELSE IF a = 0 THEN TRUE
                 ELSE FALSE

(***************************************************************************)
(* sanitizeHeaders.  A header map is a function from header names to       *)
(* values; a value is a record with its JavaScript type, and for a string  *)
(* its characters.  customHeaders itself may be undefined, null, or a      *)
(* value that is not an object.                                            *)
(***************************************************************************)
ContentTypeKey == <<"C","o","n","t","e","n","t","-","T","y","p","e">>

ApplicationJson == <<"a","p","p","l","i","c","a","t","i","o","n","/","j","s","o","n">>

StringValue(chars) == [t |-> "string", s |-> chars]

\* sanitizeHeaders without the allow-list test of line 67
sanitizeHeadersNoAllowList(customHeaders) ==
    LET sanitized == [k \in {ContentTypeKey} |-> ApplicationJson]
    IN  IF customHeaders.t # "object" THEN sanitized
        ELSE LET m == customHeaders.map
                 kept == {k \in DOMAIN m : m[k].t = "string"}
             IN  [k \in {ContentTypeKey} \cup kept |->
                     IF k \in kept THEN m[k].s ELSE sanitized[k]]

sanitizeHeaders(customHeaders) ==
    LET sanitized == [k \in {ContentTypeKey} |-> ApplicationJson]
    IN  IF customHeaders.t # "object" THEN sanitized
        ELSE LET m == customHeaders.map
                 kept == {k \in DOMAIN m :
                             /\ m[k].t = "string"
                             /\ ToLowerCase(k) \in ALLOWED_HEADERS}
             IN  [k \in {ContentTypeKey} \cup kept |->
                     IF k \in kept THEN m[k].s ELSE sanitized[k]]

(***************************************************************************)
(* new URL(endpoint).hostname for the host text of an endpoint: the host   *)
(* is lower-cased, and an IPv4-mapped IPv6 literal written with a dotted   *)
(* quad is serialised in hexadecimal groups ("[::ffff:10.0.0.1]" becomes   *)
(* "[::ffff:a00:1]").                                                      *)
(***************************************************************************)
HexDigits == <<"0", "1", "2", "3", "4", "5", "6", "7", "8", "9",
               "a", "b", "c", "d", "e", "f">>

RECURSIVE Hex(_)
Hex(n) == IF n < 16 THEN <<HexDigits[n + 1]>>
          ELSE Hex(n \div 16) \o <<HexDigits[(n % 16) + 1]>>

\* net.isIPv4: four dot-separated decimal numbers, each at most 255
IsIPv4Literal(h) ==
    LET pieces == Split(h, ".")
    IN  /\ Len(pieces) = 4
        /\ \A i \in 1..4 : /\ pieces[i] # <<>>
                           /\ Number(pieces[i]) # NaN
                           /\ Number(pieces[i]) <= 255

IsBracketed(h) == Len(h) >= 2 /\ h[1] = "[" /\ h[Len(h)] = "]"

URLHostname(hostText) ==
    LET h == ToLowerCase(hostText)
    IN  IF IsBracketed(h)
        THEN LET inner == SubSeq(h, 2, Len(h) - 1)
                 rest == SubSeq(inner, 8, Len(inner))
             IN  IF StartsWith(inner, MappedPrefix) /\ IsIPv4Literal(rest)
                 THEN LET q == Split(rest, ".")
                          hi == Number(q[1]) * 256 + Number(q[2])
                          lo == Number(q[3]) * 256 + Number(q[4])
                      IN  <<"[">> \o MappedPrefix \o Hex(hi) \o <<":">> \o Hex(lo) \o <<"]">>
                 ELSE h
        ELSE h

\* new URL(referer).origin
URLOrigin(url) == url.protocol \o "//" \o url.host

(***************************************************************************)
(* The inputs of a request.                                                *)
(***************************************************************************)
RECURSIVE Dec(_)
Dec(n) == IF n < 10 THEN <<Digits[n + 1]>>
          ELSE Dec(n \div 10) \o <<Digits[(n % 10) + 1]>>

IPv4(a, b, c, d) ==
    Dec(a) \o <<".">> \o Dec(b) \o <<".">> \o Dec(c) \o <<".">> \o Dec(d)

Localhost == <<"l","o","c","a","l","h","o","s","t">>
ExampleCom == <<"e","x","a","m","p","l","e",".","c","o","m">>
LoopbackV6 == <<":",":","1">>
UnspecifiedV6 == <<":",":">>
LinkLocalV6 == <<"f","e","8","0",":",":","1">>
UniqueLocalV6 == <<"f","c","0","0",":",":","1">>
MappedPrivate == MappedPrefix \o IPv4(10, 0, 0, 1)
MappedPublic == MappedPrefix \o IPv4(8, 8, 8, 8)

Bracket(h) == <<"[">> \o h \o <<"]">>

\* the ten hosts of the specification's rejection list, as written in a URL
ListedHosts ==
    { Localhost, IPv4(127, 0, 0, 1), IPv4(10, 0, 0, 1), IPv4(172, 16, 0, 1),
      IPv4(172, 31, 255, 255), IPv4(192, 168, 1, 1), IPv4(169, 254, 169, 254),
      IPv4(0, 1, 2, 3), Bracket(LoopbackV6), Bracket(MappedPrivate) }

HostTexts ==
    ListedHosts \cup
    { ExampleCom, IPv4(8, 8, 8, 8), IPv4(172, 15, 255, 255), IPv4(172, 32, 0, 1),
      IPv4(169, 254, 1, 1) }

\* the answers a resolver can give for a DNS name
DnsAddresses ==
    { IPv4(93, 184, 216, 34), IPv4(10, 0, 0, 1), IPv4(169, 254, 1, 1),
      LoopbackV6, UnspecifiedV6, LinkLocalV6, UniqueLocalV6, MappedPrivate }

GraphqlPath == <<"/","g","r","a","p","h","q","l">>
OtherPath == <<"/","a","p","i","/","v","1">>
Paths == {GraphqlPath, OtherPath}

\* URLs in which the text graphql is somewhere else than in the path, or is
\* in the path in another case
GraphqlHost == <<"g","r","a","p","h","q","l",".","e","x","a","m","p","l","e",".","c","o","m">>
UpperPath == <<"/","G","r","a","p","h","Q","L">>
NoSearch == <<>>
GraphqlSearch == <<"?","q","=","g","r","a","p","h","q","l">>
Graphql == <<"g","r","a","p","h","q","l">>

Endpoints ==
    { [t |-> "undefined"], [t |-> "number"],
      [t |-> "string", text |-> "", parses |-> FALSE],
      [t |-> "string", text |-> "not a url", parses |-> FALSE] }
    \cup
    { [t |-> "string", text |-> "url", parses |-> TRUE,
       protocol |-> p, host |-> h, pathname |-> path, search |-> NoSearch] :
         p \in {"https:", "http:"}, h \in HostTexts, path \in Paths }
    \cup
    { [t |-> "string", text |-> "url", parses |-> TRUE,
       protocol |-> "https:", host |-> h, pathname |-> path, search |-> q] :
         h \in {GraphqlHost, IPv4(8, 8, 8, 8)},
         path \in Paths \cup {UpperPath},
         q \in {NoSearch, GraphqlSearch} }

Queries ==
    { [t |-> "undefined"], [t |-> "number"] }
    \cup { [t |-> "string", length |-> n] :
             n \in {0, 1, MAX_QUERY_LENGTH, MAX_QUERY_LENGTH + 1} }

AuthorizationKey == <<"A","u","t","h","o","r","i","z","a","t","i","o","n">>
CookieKey == <<"C","o","o","k","i","e">>

RequestHeaders ==
    { [t |-> "undefined"],
      [t |-> "object",
       map |-> [k \in {AuthorizationKey, CookieKey} |-> StringValue(<<"t","o","k">>)]],
      [t |-> "object",
       map |-> [k \in {ContentTypeKey} |-> StringValue(<<"t","e","x","t">>)]] }

\* the header maps sanitizeHeaders is applied to on its own: every map of at
\* most MaxHeaders entries over these names and values, and the values of
\* customHeaders that are no object
HeaderNames ==
    { AuthorizationKey, <<"a","u","t","h","o","r","i","z","a","t","i","o","n">>, ContentTypeKey,
      <<"c","o","n","t","e","n","t","-","t","y","p","e">>, <<"H","o","s","t">>, CookieKey,
      <<"S","e","t","-","C","o","o","k","i","e">>, <<"X","-","F","o","r","w","a","r","d","e","d","-","F","o","r">>,
      <<"X","-","A","P","I","-","K","E","Y">> }

CR == "\r"
LF == "\n"
NUL == "\\0"

HeaderValues ==
    { StringValue(<<"t","o","k">>), StringValue(<<"t","e","x","t","/","p","l","a","i","n">>),
      StringValue(<<"a", CR, LF, "b">>), StringValue(<<"a", LF>>),
      StringValue(<<"a", NUL>>), [t |-> "number"], [t |-> "null"] }

HeaderMaps ==
    UNION { [names -> HeaderValues] :
              names \in {n \in SUBSET HeaderNames : Cardinality(n) <= MaxHeaders} }

HeaderInputs ==
    { [t |-> "undefined"], [t |-> "null"], [t |-> "string"], [t |-> "number"] }
    \cup { [t |-> "object", map |-> m] : m \in HeaderMaps }

\* what readBody returns: undefined when the request has no body, else the
\* parsed JSON value, which need not be an object
Bodies ==
    { [t |-> "undefined"], [t |-> "null"], [t |-> "string"] }
    \cup { [t |-> "object", endpoint |-> e, query |-> q, headers |-> h] :
             e \in Endpoints, q \in Queries, h \in RequestHeaders }

\* a Referer header: absent, or a text that new URL parses into its parts or rejects
NoReferer == [present |-> FALSE, parses |-> FALSE, protocol |-> "", host |-> "", rest |-> ""]
AllowedPage ==
    [present |-> TRUE, parses |-> TRUE, protocol |-> "https:", host |-> "playground.icjia.app",
     rest |-> "/history?tab=2"]
ForeignPage ==
    [present |-> TRUE, parses |-> TRUE, protocol |-> "https:", host |-> "evil.example",
     rest |-> "/playground.icjia.app"]
MalformedReferer ==
    [present |-> TRUE, parses |-> FALSE, protocol |-> "", host |-> "", rest |-> "not a url"]

OriginHeaders == {None, "https://playground.icjia.app", "https://evil.example"}
RefererHeaders == {NoReferer, AllowedPage, ForeignPage, MalformedReferer}


(***************************************************************************)
(* $fetch (ofetch) as the route sees it.  The response body is parsed with *)
(* a parser that falls back to the raw text when the text is not JSON.  A  *)
(* status of 400..599 makes $fetch throw an error carrying statusCode and  *)
(* data; a failure to connect and a timeout make it throw an error with    *)
(* neither.                                                                *)
(***************************************************************************)
Undefined == [t |-> "undefined"]

DataBody == "{\"data\":{\"__typename\":\"Query\"}}"
ErrorsBody == "{\"errors\":[{\"message\":\"Cannot query field\"}]}"
HtmlBody == "<html>Bad Gateway</html>"

JsonTexts == {DataBody, ErrorsBody, "null", "false", "0"}

UpstreamBodies == JsonTexts \cup {HtmlBody, ""}

UpstreamStatuses == {200, 302, 400, 500}

\* JSON.parse of a body text of the model
JsonValue(text) ==
    CASE text = DataBody -> [t |-> "object", json |-> "data"]
      [] text = ErrorsBody -> [t |-> "object", json |-> "errors"]
      [] text = "null" -> [t |-> "null"]
      [] text = "false" -> [t |-> "boolean", b |-> FALSE]
      [] text = "0" -> [t |-> "number", n |-> 0]

\* response._data: the parsed body, or its raw text when it is no JSON
ResponseData(text) ==
    IF text \in JsonTexts THEN JsonValue(text)
    ELSE [t |-> "string", text |-> text]

\* JavaScript truthiness of a value
Truthy(v) ==
    CASE v.t = "undefined" -> FALSE
      [] v.t = "null" -> FALSE
      [] v.t = "boolean" -> v.b
      [] v.t = "number" -> v.n # 0
      [] v.t = "string" -> v.text # ""
      [] v.t = "object" -> TRUE

\* line 152: !query || typeof query !== 'string'
queryMissing(query) == query.t # "string" \/ query.length = 0

\* line 159 with >= in place of >
queryTooLongInclusive(query) == query.length >= MAX_QUERY_LENGTH

\* line 159: query.length > MAX_QUERY_LENGTH
queryTooLong(query) == query.length > MAX_QUERY_LENGTH

\* lines 182-185: body: { query, variables: variables || undefined }; a field
\* that is undefined is left out of the JSON text that is sent
requestBody(query, variables) ==
    [query |-> query, variables |-> IF Truthy(variables) THEN variables ELSE Undefined]

\* the values the variables field of an inbound body can have: absent, or
\* any JSON value (an array is an object to JavaScript)
VariablesValues ==
    { Undefined, [t |-> "null"] }
    \cup { [t |-> "boolean", b |-> b] : b \in BOOLEAN }
    \cup { [t |-> "number", n |-> n] : n \in (0 - MaxNumber)..MaxNumber }
    \cup { [t |-> "string", text |-> x] : x \in {"", "a", "0", "false", "null"} }
    \cup { [t |-> "object", json |-> j] :
             j \in {"{}", "{\"id\":1}", "{\"id\":null}", "[]", "[0]", "[{}]"} }

\* line 167 with the whole URL searched in place of its path
pathHasGraphqlInHref(url) == Includes(url.host \o url.pathname \o url.search, Graphql)

\* line 167: parsedUrl.pathname.includes('graphql')
pathHasGraphql(url) == Includes(url.pathname, Graphql)

\* the queries that pass the query check and the size check
ForwardedQueries == { q \in Queries : ~queryMissing(q) /\ ~queryTooLong(q) }

NetworkFailures == {"connection refused", "connection reset"}

TimedOut == [kind |-> "failure", status |-> 0, body |-> "timeout"]

UpstreamAnswers ==
    { [kind |-> "response", status |-> st, body |-> b] :
        st \in UpstreamStatuses, b \in UpstreamBodies }
    \cup { [kind |-> "failure", status |-> 0, body |-> f] : f \in NetworkFailures }

(***************************************************************************)
(* dns.lookup as the route sees it: an IPv4 literal resolves to itself, a  *)
(* bracketed IPv6 literal is no resolvable name, and a DNS name resolves   *)
(* to whatever the resolver answers at that moment, or fails.              *)
(***************************************************************************)
LookupFailed == <<"E","N","O","T","F","O","U","N","D">>

LookupAnswers(hostname) ==
    IF IsIPv4Literal(hostname) THEN {hostname}
    ELSE IF IsBracketed(hostname) THEN {LookupFailed}
    ELSE DnsAddresses \cup {LookupFailed}

\* the address the socket of $fetch(endpoint) is opened to: the URL carries
\* the hostname, so the name is resolved again when the connection is made
ConnectAnswers(hostname) ==
    IF IsIPv4Literal(hostname) THEN {hostname}
    ELSE IF IsBracketed(hostname) THEN {SubSeq(hostname, 2, Len(hostname) - 1)}
    ELSE DnsAddresses \cup {LookupFailed}

(***************************************************************************)
(* The handler.  One request is handled from its arrival to its response;  *)
(* the handler suspends at readBody, at lookup and at $fetch.              *)
(***************************************************************************)
VARIABLES
    pc,            \* where the handler is
    dev,           \* import.meta.dev
    origin,        \* the Origin header
    referer,       \* the Referer header
    body,          \* the value readBody returned
    hostname,      \* parsedUrl.hostname
    address,       \* the address lookup returned
    resolutions,   \* how many times the hostname has been resolved
    fetchHeaders,  \* the value sanitizeHeaders returned
    connectedTo,   \* the address the outbound connection was opened to
    requests,      \* how many outbound HTTP requests $fetch has made
    ran,           \* the checks and stages executed so far, in order
    upstream,      \* what the upstream answered to the outbound request
    outcome,       \* what the handler returned or threw
    ipInput,
    ipResult,
    ipPc,
    first,
    phase,
    other,
    workspaces,
    nextTabId,
    persistedWorkspaces,
    history,
    storedHistory,
    clock,
    watchedEndpoint,
    schema,
    sdl,
    isLoading,
    introspectionDisabled,
    inFlight,
    fetchesStarted,
    isExecuting,
    executing,
    callsStarted,
    results,
    toast,
    endpoints,
    activeEndpoint,
    storedEndpoints,
    storedActive,
    now,
    inQuery,       \* the request body on its own: the query of the inbound body
    inVariables,   \* the request body on its own: the variables of the inbound body
    sentBody,      \* the request body on its own: the body handed to $fetch
    sentPc,        \* the request body on its own: built or not
    customHeaders, \* sanitizeHeaders on its own: its argument
    sanitized,     \* sanitizeHeaders on its own: its result
    sanPc          \* sanitizeHeaders on its own: called or returned

vars == <<pc, dev, origin, referer, body, hostname, address, resolutions,
          fetchHeaders, connectedTo, requests, ran, upstream, outcome,
          ipInput, ipResult, ipPc,
          first, phase,
          other,
          workspaces, nextTabId, persistedWorkspaces,
          history, storedHistory, clock,
          watchedEndpoint, schema, sdl, isLoading, introspectionDisabled, inFlight, fetchesStarted,
          isExecuting, executing, callsStarted, results, toast,
          endpoints, activeEndpoint, storedEndpoints, storedActive, now,
          inQuery, inVariables, sentBody, sentPc, customHeaders, sanitized, sanPc>>

handlerVars == <<pc, dev, origin, referer, body, hostname, address, resolutions,
                 fetchHeaders, connectedTo, requests, ran, upstream, outcome>>

sanitizerVars == <<customHeaders, sanitized, sanPc>>

bodyVars == <<inQuery, inVariables, sentBody, sentPc>>

classifierVars == <<ipInput, ipResult, ipPc>>

replayVars == <<first, phase>>

pairVars == <<other>>

workspaceVars == <<workspaces, nextTabId, persistedWorkspaces>>

historyVars == <<history, storedHistory, clock>>

schemaVars == <<watchedEndpoint, schema, sdl, isLoading, introspectionDisabled, inFlight, fetchesStarted>>

executorVars == <<isExecuting, executing, callsStarted, results, toast>>

storeVars == <<endpoints, activeEndpoint, storedEndpoints, storedActive, now>>

\* the variables of the parts that run in the browser
clientVars == <<workspaceVars, historyVars, schemaVars, executorVars, storeVars>>

standaloneVars == <<sanitizerVars, bodyVars, classifierVars, replayVars, pairVars, workspaceVars, historyVars, schemaVars, executorVars, storeVars>>

\* everything but the variables of one part of the model
exceptSanitizer == <<handlerVars, bodyVars, classifierVars, replayVars, pairVars, workspaceVars, historyVars, schemaVars, executorVars, storeVars>>
exceptBody == <<handlerVars, sanitizerVars, classifierVars, replayVars, pairVars, workspaceVars, historyVars, schemaVars, executorVars, storeVars>>
exceptClassifier == <<handlerVars, sanitizerVars, bodyVars, replayVars, pairVars, workspaceVars, historyVars, schemaVars, executorVars, storeVars>>
exceptReplay == <<handlerVars, sanitizerVars, bodyVars, classifierVars, pairVars, workspaceVars, historyVars, schemaVars, executorVars, storeVars>>
exceptPair == <<handlerVars, sanitizerVars, bodyVars, classifierVars, replayVars, workspaceVars, historyVars, schemaVars, executorVars, storeVars>>
exceptWorkspace == <<handlerVars, sanitizerVars, bodyVars, classifierVars, replayVars, pairVars, historyVars, schemaVars, executorVars, storeVars>>
exceptHistory == <<handlerVars, sanitizerVars, bodyVars, classifierVars, replayVars, pairVars, workspaceVars, schemaVars, executorVars, storeVars>>
exceptSchema == <<handlerVars, sanitizerVars, bodyVars, classifierVars, replayVars, pairVars, workspaceVars, historyVars, executorVars, storeVars>>
exceptExecutor == <<handlerVars, sanitizerVars, bodyVars, classifierVars, replayVars, pairVars, workspaceVars, historyVars, schemaVars, storeVars>>
exceptStore == <<handlerVars, sanitizerVars, bodyVars, classifierVars, replayVars, pairVars, workspaceVars, historyVars, schemaVars, executorVars>>

\* the values of the handler's variables before it assigns them
Unread == [t |-> "unread"]
NoAddress == <<>>
NoHeaders == [k \in {} |-> <<>>]

Pending == [kind |-> "pending", statusCode |-> 0, statusMessage |-> "", value |-> Undefined]

\* throw createError({ statusCode, statusMessage })
createError(code, message) ==
    [kind |-> "error", statusCode |-> code, statusMessage |-> message, value |-> Undefined]

\* an exception that is no createError error (a TypeError)
Unhandled(message) ==
    [kind |-> "unhandled", statusCode |-> 500, statusMessage |-> message, value |-> Undefined]

\* return value
Returned(v) == [kind |-> "success", statusCode |-> 200, statusMessage |-> "", value |-> v]

ForbiddenOriginMessage == "Forbidden: requests must originate from the playground app"
ForbiddenAddressMessage == "Requests to private or internal addresses are not allowed"

NoAnswer == [kind |-> "none", status |-> 0, body |-> ""]

HandlerStart ==
    /\ origin = None
    /\ referer = NoReferer
    /\ body = Unread
    /\ hostname = NoAddress
    /\ address = NoAddress
    /\ resolutions = 0
    /\ fetchHeaders = NoHeaders
    /\ connectedTo = NoAddress
    /\ requests = 0
    /\ ran = <<>>
    /\ upstream = NoAnswer
    /\ outcome = Pending

\* the variables of sanitizeHeaders on its own, while it is not run
SanitizerIdle ==
    /\ customHeaders = Undefined
    /\ sanitized = NoHeaders
    /\ sanPc = "idle"

NoBody == [query |-> Undefined, variables |-> Undefined]

\* the variables of the request body on its own, while it is not built
BodyIdle ==
    /\ inQuery = Undefined
    /\ inVariables = Undefined
    /\ sentBody = NoBody
    /\ sentPc = "idle"

ClassifierIdle ==
    /\ ipInput = <<>>
    /\ ipResult = FALSE
    /\ ipPc = "idle"

\* what is kept of a request that has been handled: its inputs, the answers
\* of the resolver and of the upstream, and what came of it
NoRun ==
    [origin |-> None, referer |-> NoReferer, body |-> Unread, hostname |-> NoAddress,
     address |-> NoAddress, connectedTo |-> NoAddress, upstream |-> NoAnswer, resolutions |-> 0, requests |-> 0,
     fetchHeaders |-> NoHeaders, ran |-> <<>>, outcome |-> Pending]

ReplayIdle ==
    /\ first = NoRun
    /\ phase = "idle"

\* the locals of an invocation of the handler that has not run yet
NoLocals ==
    [pc |-> "start", origin |-> None, referer |-> NoReferer, body |-> Unread,
     hostname |-> NoAddress, address |-> NoAddress, resolutions |-> 0,
     fetchHeaders |-> NoHeaders, connectedTo |-> NoAddress, requests |-> 0,
     ran |-> <<>>, upstream |-> NoAnswer, outcome |-> Pending]

PairIdle ==
    /\ other = NoLocals

\* loadWorkspaces() with nothing in localStorage (app/stores/workspace.ts)
NoWorkspaces == [url \in {} |-> 0]

WorkspaceIdle ==
    /\ workspaces = NoWorkspaces
    /\ nextTabId = 1
    /\ persistedWorkspaces = NoWorkspaces

\* loadHistory() with nothing in localStorage (app/composables/useHistory.ts)
HistoryIdle ==
    /\ history = <<>>
    /\ storedHistory = <<>>
    /\ clock = 1

\* useSchema() before an endpoint is active (app/composables/useSchema.ts)
SchemaIdle ==
    /\ watchedEndpoint = ""
    /\ schema = ""
    /\ sdl = ""
    /\ isLoading = FALSE
    /\ introspectionDisabled = FALSE
    /\ inFlight = {}
    /\ fetchesStarted = 0

\* useGraphQL() before a query is executed (app/composables/useGraphQL.ts)
ExecutorIdle ==
    /\ isExecuting = FALSE
    /\ executing = {}
    /\ callsStarted = 0
    /\ results = ""
    /\ toast = ""

\* the endpoints store with nothing in localStorage (app/stores/endpoints.ts)
StoreIdle ==
    /\ endpoints = <<>>
    /\ activeEndpoint = ""
    /\ storedEndpoints = <<>>
    /\ storedActive = ""
    /\ now = 1

Init ==
    /\ pc = "start"
    /\ dev \in BOOLEAN
    /\ HandlerStart
    /\ SanitizerIdle
    /\ BodyIdle
    /\ ClassifierIdle
    /\ ReplayIdle
    /\ PairIdle
    /\ WorkspaceIdle
    /\ HistoryIdle
    /\ SchemaIdle
    /\ ExecutorIdle
    /\ StoreIdle

\* the handler ends by throwing or returning
Finish(stages, result) ==
    /\ pc' = "done"
    /\ ran' = ran \o stages
    /\ outcome' = result

\* lines 80-92
CheckOrigin ==
    /\ pc = "start"
    /\ \E o \in OriginHeaders, r \in RefererHeaders :
        /\ origin' = o
        /\ referer' = r
        /\ IF dev
           THEN /\ pc' = "readBody"
                /\ ran' = ran
                /\ outcome' = outcome
           ELSE IF o = None /\ r.present /\ ~r.parses
           THEN Finish(<<"origin">>, Unhandled("TypeError: Invalid URL"))
           ELSE LET requestOrigin == IF o # None THEN o
                                     ELSE IF r.present THEN URLOrigin(r)
                                     ELSE None
                IN  IF requestOrigin = None \/ requestOrigin \notin ALLOWED_ORIGINS
                    THEN Finish(<<"origin">>, createError(403, ForbiddenOriginMessage))
                    ELSE /\ pc' = "readBody"
                         /\ ran' = Append(ran, "origin")
                         /\ outcome' = outcome
    /\ UNCHANGED <<dev, body, hostname, address, resolutions, fetchHeaders, connectedTo,
                   requests, upstream, standaloneVars>>

\* line 117 without the test of the protocol
schemeRejectedNever(protocol, isDev) == FALSE

\* line 117: parsedUrl.protocol !== 'https:' && !import.meta.dev
schemeRejected(protocol, isDev) == protocol # "https:" /\ ~isDev

\* line 125 skipped when import.meta.dev is set
literalRejectedUnlessDev(h) == ~dev /\ (h \in BLOCKED_HOSTNAMES \/ isPrivateIP(h))

\* line 125: BLOCKED_HOSTNAMES.includes(parsedUrl.hostname) || isPrivateIP(parsedUrl.hostname)
literalRejected(h) == h \in BLOCKED_HOSTNAMES \/ isPrivateIP(h)

\* lines 94-130
ValidateEndpoint ==
    /\ pc = "readBody"
    /\ \E b \in Bodies :
        /\ body' = b
        /\ IF b.t \in {"undefined", "null"}
           THEN /\ Finish(<<"body">>, Unhandled("TypeError: Cannot destructure"))
                /\ hostname' = hostname
           ELSE LET endpoint == IF b.t = "object" THEN b.endpoint ELSE Undefined
                IN  IF endpoint.t # "string" \/ endpoint.text = ""
                    THEN /\ Finish(<<"body", "endpoint">>,
                                   createError(400, "Missing or invalid endpoint URL"))
                         /\ hostname' = hostname
                    ELSE IF ~endpoint.parses
                    THEN /\ Finish(<<"body", "endpoint">>,
                                   createError(400, "Invalid endpoint URL format"))
                         /\ hostname' = hostname
                    ELSE /\ hostname' = URLHostname(endpoint.host)
                         /\ IF schemeRejected(endpoint.protocol, dev)
                            THEN Finish(<<"body", "endpoint", "scheme">>,
                                        createError(400, "Only HTTPS endpoints are allowed in production"))
                            ELSE IF literalRejected(hostname')
                            THEN Finish(<<"body", "endpoint", "scheme", "literal">>,
                                        createError(403, ForbiddenAddressMessage))
                            ELSE /\ pc' = "lookup"
                                 /\ ran' = ran \o <<"body", "endpoint", "scheme", "literal">>
                                 /\ outcome' = outcome
    /\ UNCHANGED <<dev, origin, referer, address, resolutions, fetchHeaders, connectedTo,
                   requests, upstream, standaloneVars>>

\* ResolveHostname without the test of the resolved address (line 137)
ResolveHostnameUnchecked ==
    /\ pc = "lookup"
    /\ \E a \in LookupAnswers(hostname) :
        /\ resolutions' = resolutions + 1
        /\ IF a = LookupFailed
           THEN /\ address' = address
                /\ Finish(<<"dns">>, createError(400, "Could not resolve endpoint hostname"))
           ELSE /\ address' = a
                /\ pc' = "validated"
                /\ ran' = Append(ran, "dns")
                /\ outcome' = outcome
    /\ UNCHANGED <<dev, origin, referer, body, hostname, fetchHeaders, connectedTo,
                   requests, upstream, standaloneVars>>

\* lines 132-149
ResolveHostname ==
    /\ pc = "lookup"
    /\ \E a \in LookupAnswers(hostname) :
        /\ resolutions' = resolutions + 1
        /\ IF a = LookupFailed
           THEN /\ address' = address
                /\ Finish(<<"dns">>, createError(400, "Could not resolve endpoint hostname"))
           ELSE /\ address' = a
                /\ IF isPrivateIP(a)
                   THEN Finish(<<"dns">>, createError(403, ForbiddenAddressMessage))
                   ELSE /\ pc' = "validated"
                        /\ ran' = Append(ran, "dns")
                        /\ outcome' = outcome
    /\ UNCHANGED <<dev, origin, referer, body, hostname, fetchHeaders, connectedTo,
                   requests, upstream, standaloneVars>>

\* lines 151-188: the query, size and path checks, sanitizeHeaders, and the
\* call of $fetch, which opens the connection
Forward ==
    /\ pc = "validated"
    /\ LET query == body.query
       IN  IF queryMissing(query)
           THEN /\ Finish(<<"query">>, createError(400, "Missing or invalid query"))
                /\ UNCHANGED <<resolutions, fetchHeaders, connectedTo, requests>>
           ELSE IF queryTooLong(query)
           THEN /\ Finish(<<"query", "size">>,
                          createError(413, "Query exceeds maximum length"))
                /\ UNCHANGED <<resolutions, fetchHeaders, connectedTo, requests>>
           ELSE IF ~pathHasGraphql(body.endpoint)
           THEN /\ Finish(<<"query", "size", "path">>,
                          createError(400, "Endpoint URL must contain \"graphql\" in the path"))
                /\ UNCHANGED <<resolutions, fetchHeaders, connectedTo, requests>>
           ELSE /\ fetchHeaders' = sanitizeHeaders(body.headers)
                /\ \E c \in ConnectAnswers(hostname) :
                     connectedTo' = c
                /\ resolutions' = resolutions + (IF IsIPv4Literal(hostname) THEN 0 ELSE 1)
                /\ requests' = requests + 1
                /\ pc' = "fetching"
                /\ ran' = ran \o <<"query", "size", "path", "sanitize", "forward">>
                /\ outcome' = outcome
    /\ UNCHANGED <<dev, origin, referer, body, hostname, address, upstream, standaloneVars>>

\* line 187 with the default of fetch, which follows a redirect
fetchRedirectFollow == "follow"

\* line 187: redirect: 'manual'
fetchRedirect == "manual"

\* lines 178-188: the call passes no retry option and the method is POST,
\* for which $fetch makes no retry
fetchRetry == 0

\* the status codes $fetch retries on while it has retries left
retryStatusCodes == {408, 409, 425, 429, 500, 502, 503, 504}

\* $fetch answers u with one more request: it follows a redirect unless told
\* not to, and it repeats a failed request while it has retries left
AnotherRequest(u) ==
    \/ /\ u.kind = "response"
       /\ u.status >= 300 /\ u.status < 400
       /\ fetchRedirect = "follow"
       /\ requests < MaxRequests
    \/ /\ requests <= fetchRetry
       /\ u.kind = "failure" \/ u.status \in retryStatusCodes

\* lines 178-202: what $fetch resolved or rejected with
Respond ==
    /\ pc = "fetching"
    /\ \E u \in UpstreamAnswers :
        /\ connectedTo = LookupFailed => u.kind = "failure"
        /\ upstream' = u
        /\ IF AnotherRequest(u)
           THEN /\ requests' = requests + 1
                /\ \E c \in (IF u.kind = "response" /\ u.status < 400
                              THEN DnsAddresses
                              ELSE ConnectAnswers(hostname)) :
                     connectedTo' = c
                /\ UNCHANGED <<pc, ran, outcome>>
           ELSE /\ UNCHANGED <<requests, connectedTo>>
                /\ IF u.kind = "failure"
                   THEN Finish(<<>>, createError(502, u.body))
                   ELSE LET data == ResponseData(u.body)
                        IN  IF u.status >= 400 /\ u.status < 600
                            THEN IF Truthy(data)
                                 THEN Finish(<<>>, Returned(data))
                                 ELSE Finish(<<>>, createError(u.status, "FetchError"))
                            ELSE Finish(<<>>, Returned(data))
    /\ UNCHANGED <<dev, origin, referer, body, hostname, address, resolutions,
                   fetchHeaders, standaloneVars>>

\* line 186: timeout: REQUEST_TIMEOUT aborts a request the upstream has not
\* answered, and $fetch rejects with an error that has no data (lines 191-201)
FetchTimeout ==
    /\ pc = "fetching"
    /\ upstream' = TimedOut
    /\ Finish(<<>>, createError(502, TimedOut.body))
    /\ UNCHANGED <<dev, origin, referer, body, hostname, address, resolutions,
                   fetchHeaders, connectedTo, requests, standaloneVars>>

Next ==
    \/ CheckOrigin
    \/ ValidateEndpoint
    \/ ResolveHostname
    \/ Forward
    \/ Respond
    \/ FetchTimeout

Spec == Init /\ [][Next]_vars

(***************************************************************************)
(* The handler under the progress its code guarantees: its own synchronous *)
(* steps run, the body of the inbound request is read, and the timer of    *)
(* $fetch (line 186) fires when the upstream has not answered.  The answer *)
(* of lookup() (line 136) and the answer of the upstream come from outside *)
(* and the code sets no timer on lookup(), so neither is assumed to come.  *)
(***************************************************************************)
SpecLive ==
    /\ Init
    /\ [][Next]_vars
    /\ WF_vars(CheckOrigin)
    /\ WF_vars(ValidateEndpoint)
    /\ WF_vars(Forward)
    /\ WF_vars(FetchTimeout)

(***************************************************************************)
(* sanitizeHeaders applied on its own to every header input of the model.  *)
(***************************************************************************)
SanitizerInit ==
    /\ pc = "idle"
    /\ dev = FALSE
    /\ HandlerStart
    /\ customHeaders \in HeaderInputs
    /\ sanitized = NoHeaders
    /\ sanPc = "called"
    /\ BodyIdle
    /\ ClassifierIdle
    /\ ReplayIdle
    /\ PairIdle
    /\ WorkspaceIdle
    /\ HistoryIdle
    /\ SchemaIdle
    /\ ExecutorIdle
    /\ StoreIdle

\* lines 57-73
Sanitize ==
    /\ sanPc = "called"
    /\ sanitized' = sanitizeHeaders(customHeaders)
    /\ sanPc' = "returned"
    /\ UNCHANGED <<customHeaders, exceptSanitizer>>

SanitizerNext == Sanitize

SpecSanitizer == SanitizerInit /\ [][SanitizerNext]_vars

(***************************************************************************)
(* The body handed to $fetch, built on its own from every query that is    *)
(* forwarded and every value of variables of the model.                    *)
(***************************************************************************)
BodyInit ==
    /\ pc = "idle"
    /\ dev = FALSE
    /\ HandlerStart
    /\ SanitizerIdle
    /\ ClassifierIdle
    /\ ReplayIdle
    /\ PairIdle
    /\ WorkspaceIdle
    /\ HistoryIdle
    /\ SchemaIdle
    /\ ExecutorIdle
    /\ StoreIdle
    /\ inQuery \in ForwardedQueries
    /\ inVariables \in VariablesValues
    /\ sentBody = NoBody
    /\ sentPc = "validated"

\* lines 182-185
BuildBody ==
    /\ sentPc = "validated"
    /\ sentBody' = requestBody(inQuery, inVariables)
    /\ sentPc' = "sent"
    /\ UNCHANGED <<inQuery, inVariables, exceptBody>>

BodyNext == BuildBody

SpecBody == BodyInit /\ [][BodyNext]_vars

(***************************************************************************)
(* One request handled twice: first in production, then, when the origin   *)
(* check and the scheme check did not reject it, once more with            *)
(* import.meta.dev set, with the same headers and body and the same        *)
(* answers of the resolver and of the upstream.                            *)
(***************************************************************************)
ReplayInit ==
    /\ pc = "start"
    /\ dev = FALSE
    /\ HandlerStart
    /\ SanitizerIdle
    /\ BodyIdle
    /\ ClassifierIdle
    /\ PairIdle
    /\ WorkspaceIdle
    /\ HistoryIdle
    /\ SchemaIdle
    /\ ExecutorIdle
    /\ StoreIdle
    /\ first = NoRun
    /\ phase = "production"

\* the answers of the resolver and of the upstream the two handlings are
\* followed through: a public address, private ones, a failed lookup, a
\* response of each status class with a JSON body or another one, a refused
\* connection and a timeout
ReplayedAnswers ==
    /\ address \in {NoAddress, IPv4(93, 184, 216, 34), IPv4(8, 8, 8, 8), IPv4(10, 0, 0, 1),
                    IPv4(169, 254, 1, 1), LoopbackV6}
    /\ connectedTo \in {NoAddress, LookupFailed, IPv4(93, 184, 216, 34), IPv4(8, 8, 8, 8),
                        IPv4(10, 0, 0, 1), IPv4(169, 254, 1, 1)}
    /\ upstream.body \in {"", DataBody, HtmlBody, "0", "connection refused", "timeout"}

\* the first handling of the request, lines 79-203 with import.meta.dev false
HandleInProduction ==
    /\ phase = "production"
    /\ Next
    /\ ReplayedAnswers'

\* the same request arrives at a server run in development mode
HandleAgainInDevelopment ==
    /\ phase = "production"
    /\ pc = "done"
    /\ outcome.kind # "unhandled"
    /\ outcome.statusMessage \notin
          {ForbiddenOriginMessage, "Only HTTPS endpoints are allowed in production"}
    /\ first' = [origin |-> origin, referer |-> referer, body |-> body,
                 hostname |-> hostname, address |-> address,
                 connectedTo |-> connectedTo, upstream |-> upstream,
                 resolutions |-> resolutions, requests |-> requests,
                 fetchHeaders |-> fetchHeaders, ran |-> ran, outcome |-> outcome]
    /\ phase' = "development"
    /\ pc' = "start"
    /\ dev' = TRUE
    /\ origin' = None
    /\ referer' = NoReferer
    /\ body' = Unread
    /\ hostname' = NoAddress
    /\ address' = NoAddress
    /\ resolutions' = 0
    /\ fetchHeaders' = NoHeaders
    /\ connectedTo' = NoAddress
    /\ requests' = 0
    /\ ran' = <<>>
    /\ upstream' = NoAnswer
    /\ outcome' = Pending
    /\ UNCHANGED <<sanitizerVars, bodyVars, classifierVars, pairVars, clientVars>>

\* lines 80-92 with import.meta.dev true, on the headers of the first handling
ReplayCheckOrigin ==
    /\ phase \in {"development", "alone"}
    /\ origin' = first.origin
    /\ referer' = first.referer
    /\ CheckOrigin

\* lines 94-130, on the body of the first handling
ReplayValidateEndpoint ==
    /\ phase \in {"development", "alone"}
    /\ body' = first.body
    /\ ValidateEndpoint

\* lines 132-149, with the answer the resolver gave the first handling
ReplayResolveHostname ==
    /\ phase \in {"development", "alone"}
    /\ ResolveHostname
    /\ address' = first.address

\* lines 151-188, the connection going where it went in the first handling
ReplayForward ==
    /\ phase \in {"development", "alone"}
    /\ Forward
    /\ connectedTo' = first.connectedTo

\* lines 178-202, with the answer the upstream gave the first handling
ReplayRespond ==
    /\ phase \in {"development", "alone"}
    /\ upstream' = first.upstream
    /\ Respond \/ FetchTimeout

ReplayNext ==
    \/ HandleInProduction
    \/ HandleAgainInDevelopment
    \/ ReplayCheckOrigin
    \/ ReplayValidateEndpoint
    \/ ReplayResolveHostname
    \/ ReplayForward
    \/ ReplayRespond

SpecReplay == ReplayInit /\ [][ReplayNext]_vars

(***************************************************************************)
(* Two requests handled by one server process.  Every name the handler     *)
(* assigns is declared inside it (lines 94-175), so each invocation has    *)
(* its own; the module scope holds constants only (lines 15-19).  One      *)
(* invocation runs at a time and the other is suspended; the steps of the  *)
(* two interleave in every order.  When both have ended, one of them is    *)
(* handled once more, alone, with the same headers and body and the same   *)
(* answers of the resolver and of the upstream.                            *)
(***************************************************************************)
\* the locals of the running invocation
Locals ==
    [pc |-> pc, origin |-> origin, referer |-> referer, body |-> body,
     hostname |-> hostname, address |-> address, resolutions |-> resolutions,
     fetchHeaders |-> fetchHeaders, connectedTo |-> connectedTo, requests |-> requests,
     ran |-> ran, upstream |-> upstream, outcome |-> outcome]

\* the inputs and answers the two requests are followed through
PairEndpoints ==
    { e \in Endpoints :
        /\ e.t = "string"
        /\ e.parses =>
             /\ e.protocol = "https:"
             /\ e.search = NoSearch
             /\ \/ e.host = ExampleCom
                \/ e.host = Localhost /\ e.pathname = GraphqlPath
                \/ e.host = IPv4(8, 8, 8, 8) }

PairInputs ==
    /\ body.t = "object" =>
         /\ body.endpoint \in PairEndpoints
         /\ body.query.t = "string"
         /\ body.query.length \in {1, MAX_QUERY_LENGTH + 1}
         /\ body.headers.t = "object" => AuthorizationKey \in DOMAIN body.headers.map
    /\ body.t \in {"unread", "undefined", "object"}
    /\ referer \in {NoReferer, AllowedPage}
    /\ address \in {NoAddress, IPv4(93, 184, 216, 34), IPv4(8, 8, 8, 8), IPv4(10, 0, 0, 1)}
    /\ connectedTo \in {NoAddress, LookupFailed, IPv4(93, 184, 216, 34), IPv4(8, 8, 8, 8)}
    /\ upstream.body \in {"", DataBody, "0", "connection refused", "timeout"}
    /\ upstream.status \in {0, 200, 400}

PairInit ==
    /\ pc = "start"
    /\ dev = FALSE
    /\ HandlerStart
    /\ SanitizerIdle
    /\ BodyIdle
    /\ ClassifierIdle
    /\ WorkspaceIdle
    /\ HistoryIdle
    /\ SchemaIdle
    /\ ExecutorIdle
    /\ StoreIdle
    /\ first = NoRun
    /\ phase = "together"
    /\ other = NoLocals

\* a step of the running invocation, lines 79-203
HandleTogether ==
    /\ phase = "together"
    /\ Next
    /\ PairInputs'

\* the running invocation is suspended and the other one goes on, while
\* parsedUrl (line 105) is one variable of the module for both
SwitchSharingParsedUrl ==
    /\ phase = "together"
    /\ other' = Locals
    /\ pc' = other.pc
    /\ origin' = other.origin
    /\ referer' = other.referer
    /\ body' = other.body
    /\ hostname' = hostname
    /\ address' = other.address
    /\ resolutions' = other.resolutions
    /\ fetchHeaders' = other.fetchHeaders
    /\ connectedTo' = other.connectedTo
    /\ requests' = other.requests
    /\ ran' = other.ran
    /\ upstream' = other.upstream
    /\ outcome' = other.outcome
    /\ UNCHANGED <<dev, first, phase, sanitizerVars, bodyVars, classifierVars, clientVars>>

\* the running invocation is suspended and the other one goes on, each
\* with its own locals
Switch ==
    /\ phase = "together"
    /\ other' = Locals
    /\ pc' = other.pc
    /\ origin' = other.origin
    /\ referer' = other.referer
    /\ body' = other.body
    /\ hostname' = other.hostname
    /\ address' = other.address
    /\ resolutions' = other.resolutions
    /\ fetchHeaders' = other.fetchHeaders
    /\ connectedTo' = other.connectedTo
    /\ requests' = other.requests
    /\ ran' = other.ran
    /\ upstream' = other.upstream
    /\ outcome' = other.outcome
    /\ UNCHANGED <<dev, first, phase, sanitizerVars, bodyVars, classifierVars, clientVars>>

\* both requests have ended: the one that ran last is handled again alone
HandleAlone ==
    /\ phase = "together"
    /\ pc = "done"
    /\ other.pc = "done"
    /\ first' = [origin |-> origin, referer |-> referer, body |-> body,
                 hostname |-> hostname, address |-> address,
                 connectedTo |-> connectedTo, upstream |-> upstream,
                 resolutions |-> resolutions, requests |-> requests,
                 fetchHeaders |-> fetchHeaders, ran |-> ran, outcome |-> outcome]
    /\ phase' = "alone"
    /\ other' = NoLocals
    /\ pc' = "start"
    /\ origin' = None
    /\ referer' = NoReferer
    /\ body' = Unread
    /\ hostname' = NoAddress
    /\ address' = NoAddress
    /\ resolutions' = 0
    /\ fetchHeaders' = NoHeaders
    /\ connectedTo' = NoAddress
    /\ requests' = 0
    /\ ran' = <<>>
    /\ upstream' = NoAnswer
    /\ outcome' = Pending
    /\ UNCHANGED <<dev, sanitizerVars, bodyVars, classifierVars, clientVars>>

PairNext ==
    \/ HandleTogether
    \/ Switch
    \/ HandleAlone
    \/ ReplayCheckOrigin
    \/ ReplayValidateEndpoint
    \/ ReplayResolveHostname
    \/ ReplayForward
    \/ ReplayRespond

SpecPair == PairInit /\ [][PairNext]_vars

(***************************************************************************)
(* The workspace store, app/stores/workspace.ts.  workspaces maps the URL  *)
(* of an endpoint to its tabs and the id of its active tab.  generateId    *)
(* (a timestamp and a random suffix) is a number never handed out before.  *)
(* Of a tab the model keeps id, name, autoName and query.                  *)
(***************************************************************************)
WorkspaceUrls == {"https://a.example/graphql", "https://b.example/graphql"}

\* the ids a caller passes: those generateId has made, and one it has not
UnknownTabId == 0
TabIds == 0..MaxTabs

DefaultQuery == "{\n  \n}"
QueryTexts == {"", "{ users { id } }", "query GetUser { user { id } }"}

\* lines 11-20: the name of the operation, else the first root field, else null
extractQueryName(query) ==
    CASE query = "query GetUser { user { id } }" -> "GetUser"
      [] query = "{ users { id } }" -> "users"
      [] OTHER -> None

\* lines 22-31
createDefaultTab(id) ==
    [id |-> id, name |-> "New Tab", autoName |-> TRUE, query |-> DefaultQuery]

\* the updates the callers of updateTab pass, and one that carries an id
\* (updates is a Partial<QueryTab>)
TabUpdates ==
    { [query |-> q] : q \in QueryTexts }
    \cup { [name |-> "Mine", autoName |-> FALSE] }
    \cup { [id |-> i] : i \in 1..MaxTabs }

\* Array.prototype.filter(t => t.id !== tabId)
RECURSIVE WithoutId(_, _)
WithoutId(tabs, tabId) ==
    IF tabs = <<>> THEN <<>>
    ELSE IF Head(tabs).id = tabId THEN WithoutId(Tail(tabs), tabId)
    ELSE <<Head(tabs)>> \o WithoutId(Tail(tabs), tabId)

\* Array.prototype.find(t => t.id === tabId): the index of the first match, or 0
FindTab(tabs, tabId) ==
    IF \E i \in 1..Len(tabs) : tabs[i].id = tabId
    THEN CHOOSE i \in 1..Len(tabs) :
            /\ tabs[i].id = tabId
            /\ \A j \in 1..(i - 1) : tabs[j].id # tabId
    ELSE 0

\* Object.assign(tab, updates)
Assign(tab, updates) ==
    [f \in DOMAIN tab |-> IF f \in DOMAIN updates THEN updates[f] ELSE tab[f]]

\* this.workspaces[url] = ws; this.persist()
SetWorkspace(url, ws) ==
    /\ workspaces' = [u \in DOMAIN workspaces \cup {url} |->
                         IF u = url THEN ws ELSE workspaces[u]]
    /\ persistedWorkspaces' = workspaces'

WorkspaceInit ==
    /\ pc = "idle"
    /\ dev = FALSE
    /\ HandlerStart
    /\ SanitizerIdle
    /\ BodyIdle
    /\ ClassifierIdle
    /\ ReplayIdle
    /\ PairIdle
    /\ HistoryIdle
    /\ SchemaIdle
    /\ ExecutorIdle
    /\ StoreIdle
    /\ workspaces = NoWorkspaces
    /\ nextTabId = 1
    /\ persistedWorkspaces = NoWorkspaces

\* lines 64-73
ensureWorkspace(url) ==
    /\ url \notin DOMAIN workspaces
    /\ nextTabId <= MaxTabs
    /\ SetWorkspace(url, [tabs |-> <<createDefaultTab(nextTabId)>>, activeTabId |-> nextTabId])
    /\ nextTabId' = nextTabId + 1
    /\ UNCHANGED exceptWorkspace

\* lines 75-82
addTab(url) ==
    /\ url \in DOMAIN workspaces
    /\ nextTabId <= MaxTabs
    /\ SetWorkspace(url, [tabs |-> Append(workspaces[url].tabs, createDefaultTab(nextTabId)),
                          activeTabId |-> nextTabId])
    /\ nextTabId' = nextTabId + 1
    /\ UNCHANGED exceptWorkspace

\* lines 84-92; when the filter leaves no tab and the closed tab was the
\* active one, ws.tabs[0]!.id throws after ws.tabs has been assigned
closeTab(url, tabId) ==
    /\ url \in DOMAIN workspaces
    /\ Len(workspaces[url].tabs) > 1
    /\ LET ws == workspaces[url]
           tabs == WithoutId(ws.tabs, tabId)
       IN  IF ws.activeTabId = tabId /\ tabs = <<>>
           THEN /\ workspaces' = [workspaces EXCEPT ![url].tabs = tabs]
                /\ persistedWorkspaces' = persistedWorkspaces
           ELSE SetWorkspace(url, [tabs |-> tabs,
                                  activeTabId |-> IF ws.activeTabId = tabId
                                                  THEN tabs[1].id ELSE ws.activeTabId])
    /\ UNCHANGED <<nextTabId, exceptWorkspace>>

\* lines 94-99
setActiveTab(url, tabId) ==
    /\ url \in DOMAIN workspaces
    /\ SetWorkspace(url, [workspaces[url] EXCEPT !.activeTabId = tabId])
    /\ UNCHANGED <<nextTabId, exceptWorkspace>>

\* lines 101-117
updateTab(url, tabId, updates) ==
    /\ url \in DOMAIN workspaces
    /\ LET ws == workspaces[url]
           i == FindTab(ws.tabs, tabId)
       IN  /\ i # 0
           /\ LET assigned == Assign(ws.tabs[i], updates)
                  name == IF "query" \in DOMAIN updates THEN extractQueryName(updates.query)
                          ELSE None
                  tab == IF /\ "query" \in DOMAIN updates
                            /\ updates.query # ""
                            /\ assigned.autoName # FALSE
                            /\ name # None
                         THEN [assigned EXCEPT !.name = name, !.autoName = TRUE]
                         ELSE assigned
              IN  SetWorkspace(url, [ws EXCEPT !.tabs[i] = tab])
    /\ UNCHANGED <<nextTabId, exceptWorkspace>>

\* lines 119-122
removeWorkspace(url) ==
    /\ url \in DOMAIN workspaces
    /\ workspaces' = [u \in DOMAIN workspaces \ {url} |-> workspaces[u]]
    /\ persistedWorkspaces' = workspaces'
    /\ UNCHANGED <<nextTabId, exceptWorkspace>>

WorkspaceNext ==
    \/ \E url \in WorkspaceUrls : ensureWorkspace(url)
    \/ \E url \in WorkspaceUrls : addTab(url)
    \/ \E url \in WorkspaceUrls, tabId \in TabIds : closeTab(url, tabId)
    \/ \E url \in WorkspaceUrls, tabId \in TabIds : setActiveTab(url, tabId)
    \/ \E url \in WorkspaceUrls, tabId \in TabIds, updates \in TabUpdates :
          updateTab(url, tabId, updates)
    \/ \E url \in WorkspaceUrls : removeWorkspace(url)

SpecWorkspace == WorkspaceInit /\ [][WorkspaceNext]_vars

(***************************************************************************)
(* The query history, app/composables/useHistory.ts.  history is the       *)
(* shared list of entries and storedHistory what localStorage holds under  *)
(* the history key (nothing and [] are both <<>>).  The timestamp of an    *)
(* entry is the reading of a clock that advances with every entry.         *)
(***************************************************************************)
HistoryEndpoints == {"https://a.example/graphql", "https://b.example/graphql"}

\* the entries of one endpoint (lines 33-35)
RECURSIVE getEntriesForEndpoint(_, _)
getEntriesForEndpoint(entries, endpoint) ==
    IF entries = <<>> THEN <<>>
    ELSE IF Head(entries).endpoint = endpoint
         THEN <<Head(entries)>> \o getEntriesForEndpoint(Tail(entries), endpoint)
         ELSE getEntriesForEndpoint(Tail(entries), endpoint)

\* lines 27-29 without the cap
uncapped(entries) == entries

\* lines 27-29: history.value.slice(0, MAX_ENTRIES) once the list is too long
capped(entries) ==
    IF Len(entries) > MAX_ENTRIES THEN SubSeq(entries, 1, MAX_ENTRIES) ELSE entries

HistoryInit ==
    /\ pc = "idle"
    /\ dev = FALSE
    /\ HandlerStart
    /\ SanitizerIdle
    /\ BodyIdle
    /\ ClassifierIdle
    /\ ReplayIdle
    /\ PairIdle
    /\ WorkspaceIdle
    /\ SchemaIdle
    /\ ExecutorIdle
    /\ StoreIdle
    /\ history = <<>>
    /\ storedHistory = <<>>
    /\ clock = 1

\* lines 22-31
addEntry(endpoint) ==
    /\ clock <= MaxAdded
    /\ endpoint # "https://a.example/graphql" =>
           Len(getEntriesForEndpoint(history, endpoint)) < MaxElsewhere
    /\ history' = capped(<<[query |-> "{ users { id } }", variables |-> "",
                            endpoint |-> endpoint, timestamp |-> clock]>> \o history)
    /\ storedHistory' = history'
    /\ clock' = clock + 1
    /\ UNCHANGED exceptHistory

\* lines 37-40
clearHistory ==
    /\ history' = <<>>
    /\ storedHistory' = <<>>
    /\ UNCHANGED <<clock, exceptHistory>>

HistoryNext ==
    \/ \E endpoint \in HistoryEndpoints : addEntry(endpoint)
    \/ clearHistory

SpecHistory == HistoryInit /\ [][HistoryNext]_vars

(***************************************************************************)
(* The schema state, app/composables/useSchema.ts.  The watcher starts a   *)
(* fetchSchema whenever the active endpoint changes to a URL; inFlight     *)
(* holds the calls that wait for their $fetch.  A schema and its SDL are   *)
(* named by the URL of the endpoint they were introspected from, "" being  *)
(* null and the empty SDL.                                                 *)
(* watchedEndpoint is endpointsStore.activeEndpoint as the watcher sees it.  *)
(***************************************************************************)
SchemaEndpoints ==
    { "https://open.example/graphql", "https://other.example/graphql",
      "https://closed.example/graphql", "https://down.example/graphql" }

\* what the proxy answers to the introspection query for an endpoint
IntrospectionAnswer(url) ==
    CASE url = "https://closed.example/graphql" -> "nodata"
      [] url = "https://down.example/graphql" -> "error"
      [] OTHER -> "data"

\* the state a fetchSchema for this endpoint alone ends with (lines 50-89)
SchemaStateFor(url) ==
    IF IntrospectionAnswer(url) = "data"
    THEN [schema |-> url, sdl |-> url, introspectionDisabled |-> FALSE]
    ELSE [schema |-> "", sdl |-> "", introspectionDisabled |-> TRUE]

SchemaInit ==
    /\ pc = "idle"
    /\ dev = FALSE
    /\ HandlerStart
    /\ SanitizerIdle
    /\ BodyIdle
    /\ ClassifierIdle
    /\ ReplayIdle
    /\ PairIdle
    /\ WorkspaceIdle
    /\ HistoryIdle
    /\ ExecutorIdle
    /\ StoreIdle
    /\ watchedEndpoint = ""
    /\ schema = ""
    /\ sdl = ""
    /\ isLoading = FALSE
    /\ introspectionDisabled = FALSE
    /\ inFlight = {}
    /\ fetchesStarted = 0

\* lines 46-67: fetchSchema up to its await
fetchSchema(url) ==
    /\ fetchesStarted < MaxFetches
    /\ isLoading' = TRUE
    /\ introspectionDisabled' = FALSE
    /\ inFlight' = inFlight \cup {[id |-> fetchesStarted + 1, endpoint |-> url]}
    /\ fetchesStarted' = fetchesStarted + 1
    /\ UNCHANGED <<schema, sdl>>

\* lines 92-103: the active endpoint becomes another URL and the watcher runs
ActivateEndpoint(url) ==
    /\ url # watchedEndpoint
    /\ watchedEndpoint' = url
    /\ fetchSchema(url)
    /\ UNCHANGED exceptSchema

\* lines 92-103: the active endpoint becomes '' and the watcher runs
DeactivateEndpoint ==
    /\ watchedEndpoint # ""
    /\ watchedEndpoint' = ""
    /\ schema' = ""
    /\ sdl' = ""
    /\ UNCHANGED <<isLoading, introspectionDisabled, inFlight, fetchesStarted, exceptSchema>>

\* lines 69-89: the $fetch of one call settles and the call runs to its end
FetchSettles(f) ==
    /\ f \in inFlight
    /\ inFlight' = inFlight \ {f}
    /\ IF IntrospectionAnswer(f.endpoint) = "data"
       THEN /\ schema' = f.endpoint
            /\ sdl' = f.endpoint
            /\ UNCHANGED introspectionDisabled
       ELSE /\ introspectionDisabled' = TRUE
            /\ UNCHANGED <<schema, sdl>>
    /\ isLoading' = FALSE
    /\ UNCHANGED <<watchedEndpoint, fetchesStarted, exceptSchema>>

SchemaNext ==
    \/ \E url \in SchemaEndpoints : ActivateEndpoint(url)
    \/ DeactivateEndpoint
    \/ \E f \in inFlight : FetchSettles(f)

SpecSchema == SchemaInit /\ [][SchemaNext]_vars

(***************************************************************************)
(* executeQuery, app/composables/useGraphQL.ts.  executing holds the calls *)
(* that wait for their $fetch; results is the results text of the tab the  *)
(* calls write to and toast the title of the last toast.  A call that      *)
(* succeeds records the query in the history.                              *)
(***************************************************************************)
VariablesTexts == {"", "{\"id\": 1}", "{\"id\": "}

\* JSON.parse(tab.variables) throws
InvalidJson(text) == text = "{\"id\": "

ExecutorInit ==
    /\ pc = "idle"
    /\ dev = FALSE
    /\ HandlerStart
    /\ SanitizerIdle
    /\ BodyIdle
    /\ ClassifierIdle
    /\ ReplayIdle
    /\ PairIdle
    /\ WorkspaceIdle
    /\ HistoryIdle
    /\ SchemaIdle
    /\ StoreIdle
    /\ isExecuting = FALSE
    /\ executing = {}
    /\ callsStarted = 0
    /\ results = ""
    /\ toast = ""

exceptExecutorAndHistory ==
    <<handlerVars, sanitizerVars, bodyVars, classifierVars, replayVars, pairVars,
      workspaceVars, schemaVars, storeVars>>

\* lines 19-51: executeQuery up to its await, or to an early return
executeQuery(hasEndpoint, hasTab, variables) ==
    /\ callsStarted < MaxCalls
    /\ callsStarted' = callsStarted + 1
    /\ IF ~hasEndpoint \/ ~hasTab
       THEN UNCHANGED <<isExecuting, executing, toast>>
       ELSE IF variables # "" /\ InvalidJson(variables)
       THEN /\ toast' = "Invalid JSON in variables panel"
            /\ isExecuting' = FALSE
            /\ UNCHANGED executing
       ELSE /\ isExecuting' = TRUE
            /\ executing' = executing \cup {[id |-> callsStarted + 1, variables |-> variables]}
            /\ UNCHANGED toast
    /\ UNCHANGED <<results, exceptExecutor>>

\* lines 52-61 and 70-72: the $fetch of a call resolves
RequestSucceeds(call) ==
    /\ call \in executing
    /\ executing' = executing \ {call}
    /\ results' = "data"
    /\ history' = capped(<<[query |-> "{ users { id } }", variables |-> call.variables,
                            endpoint |-> "https://a.example/graphql", timestamp |-> clock]>>
                         \o history)
    /\ storedHistory' = history'
    /\ clock' = clock + 1
    /\ isExecuting' = FALSE
    /\ UNCHANGED <<callsStarted, toast, exceptExecutorAndHistory>>

\* lines 62-72: the $fetch of a call rejects
RequestFails(call) ==
    /\ call \in executing
    /\ executing' = executing \ {call}
    /\ results' = "error"
    /\ toast' = "Query failed"
    /\ isExecuting' = FALSE
    /\ UNCHANGED <<callsStarted, exceptExecutor>>

ExecutorNext ==
    \/ \E hasEndpoint \in BOOLEAN, hasTab \in BOOLEAN, variables \in VariablesTexts :
          executeQuery(hasEndpoint, hasTab, variables)
    \/ \E call \in executing : RequestSucceeds(call)
    \/ \E call \in executing : RequestFails(call)

SpecExecutor == ExecutorInit /\ [][ExecutorNext]_vars

(***************************************************************************)
(* The endpoints store, app/stores/endpoints.ts.  endpoints is the list of *)
(* saved endpoints in the order they were added, storedEndpoints and       *)
(* storedActive what persist() wrote, and now the clock lastUsed is read   *)
(* from.                                                                   *)
(***************************************************************************)
StoreUrls == {"", "https://a.example/graphql", "https://b.example/graphql",
              "https://c.example/graphql"}

BearerTokens == {"", "token-1"}

\* this.endpoints.find(e => e.url === url): the index of the first match, or 0
FindEndpoint(url) ==
    IF \E i \in 1..Len(endpoints) : endpoints[i].url = url
    THEN CHOOSE i \in 1..Len(endpoints) :
            /\ endpoints[i].url = url
            /\ \A j \in 1..(i - 1) : endpoints[j].url # url
    ELSE 0

\* this.endpoints.filter(e => e.url !== url)
RECURSIVE WithoutUrl(_, _)
WithoutUrl(list, url) ==
    IF list = <<>> THEN <<>>
    ELSE IF Head(list).url = url THEN WithoutUrl(Tail(list), url)
    ELSE <<Head(list)>> \o WithoutUrl(Tail(list), url)

\* lines 81-83 left out: the active endpoint is kept
activeKept(url, remaining) == activeEndpoint

\* lines 81-83
activeAfterRemoval(url, remaining) ==
    IF activeEndpoint = url
    THEN IF remaining = <<>> THEN "" ELSE remaining[1].url
    ELSE activeEndpoint

\* lines 88-91
persist ==
    /\ storedEndpoints' = endpoints'
    /\ storedActive' = activeEndpoint'

StoreInit ==
    /\ pc = "idle"
    /\ dev = FALSE
    /\ HandlerStart
    /\ SanitizerIdle
    /\ BodyIdle
    /\ ClassifierIdle
    /\ ReplayIdle
    /\ PairIdle
    /\ WorkspaceIdle
    /\ HistoryIdle
    /\ SchemaIdle
    /\ ExecutorIdle
    /\ endpoints = <<>>
    /\ activeEndpoint = ""
    /\ storedEndpoints = <<>>
    /\ storedActive = ""
    /\ now = 1

\* lines 42-57
addEndpoint(url, bearerToken) ==
    /\ now <= MaxUses
    /\ LET i == FindEndpoint(url)
       IN  endpoints' =
             IF i # 0
             THEN [endpoints EXCEPT ![i].lastUsed = now, ![i].bearerToken = bearerToken]
             ELSE Append(endpoints, [url |-> url, label |-> url, lastUsed |-> now,
                                     bearerToken |-> bearerToken])
    /\ activeEndpoint' = url
    /\ persist
    /\ now' = now + 1
    /\ UNCHANGED exceptStore

\* lines 60-67
setActiveEndpoint(url) ==
    /\ now <= MaxUses
    /\ LET i == FindEndpoint(url)
       IN  IF i # 0
           THEN /\ endpoints' = [endpoints EXCEPT ![i].lastUsed = now]
                /\ activeEndpoint' = url
                /\ persist
                /\ now' = now + 1
           ELSE UNCHANGED <<endpoints, activeEndpoint, storedEndpoints, storedActive, now>>
    /\ UNCHANGED exceptStore

\* lines 70-76
updateBearerToken(url, token) ==
    /\ LET i == FindEndpoint(url)
       IN  IF i # 0
           THEN /\ endpoints' = [endpoints EXCEPT ![i].bearerToken = token]
                /\ activeEndpoint' = activeEndpoint
                /\ persist
           ELSE UNCHANGED <<endpoints, activeEndpoint, storedEndpoints, storedActive>>
    /\ UNCHANGED <<now, exceptStore>>

\* lines 79-85
removeEndpoint(url) ==
    /\ endpoints' = WithoutUrl(endpoints, url)
    /\ activeEndpoint' = activeAfterRemoval(url, endpoints')
    /\ persist
    /\ UNCHANGED <<now, exceptStore>>

StoreNext ==
    \/ \E url \in StoreUrls, bearerToken \in BearerTokens : addEndpoint(url, bearerToken)
    \/ \E url \in StoreUrls : setActiveEndpoint(url)
    \/ \E url \in StoreUrls, token \in BearerTokens : updateBearerToken(url, token)
    \/ \E url \in StoreUrls : removeEndpoint(url)

SpecStore == StoreInit /\ [][StoreNext]_vars

(***************************************************************************)
(* isPrivateIP applied on its own.  Its inputs are texts made of an        *)
(* optional ::ffff: prefix (once or twice) and three to five parts joined  *)
(* by dots, where a part is a decimal number, empty, or no number, and the *)
(* hostnames and addresses of the handler's model.                         *)
(***************************************************************************)
Dot == <<".">>

ClassifierPrefixes == { <<>>, MappedPrefix, MappedPrefix \o MappedPrefix }
FirstParts == { <<>>, <<"0">>, <<"1">>, <<"8">>, <<"1","0">>, <<"1","1">>, <<"1","2","7">>, <<"1","7","2">>, <<"1","9","2">>, <<"a">> }
SecondParts == { <<>>, <<"0">>, <<"1","5">>, <<"1","6">>, <<"3","1">>, <<"3","2">>, <<"1","6","8">>, <<"2","5","4">>, <<"b">> }
LastParts == { <<"0",".","1">>, <<"2","5","5",".","2","5","5">>, <<"0">>, <<"0",".","0",".","1">>, <<"x",".","1">>, <<".">> }

ClassifierInputs ==
    { pre \o a \o Dot \o b \o Dot \o rest :
        pre \in ClassifierPrefixes, a \in FirstParts, b \in SecondParts, rest \in LastParts }
    \cup HostTexts \cup DnsAddresses \cup { IPv4(1, 1, 1, 1), MappedPublic }

ClassifierInit ==
    /\ pc = "idle"
    /\ dev = FALSE
    /\ HandlerStart
    /\ SanitizerIdle
    /\ BodyIdle
    /\ ReplayIdle
    /\ PairIdle
    /\ WorkspaceIdle
    /\ HistoryIdle
    /\ SchemaIdle
    /\ ExecutorIdle
    /\ StoreIdle
    /\ ipInput \in ClassifierInputs
    /\ ipResult = FALSE
    /\ ipPc = "called"

\* lines 27-49
Classify ==
    /\ ipPc = "called"
    /\ ipResult' = isPrivateIP(ipInput)
    /\ ipPc' = "returned"
    /\ UNCHANGED <<ipInput, exceptClassifier>>

ClassifierNext == Classify

SpecClassifier == ClassifierInit /\ [][ClassifierNext]_vars

(***************************************************************************)
(* The properties checked.                                                 *)
(***************************************************************************)
StageOrder ==
    <<"origin", "body", "endpoint", "scheme", "literal", "dns", "query", "size",
      "path", "sanitize", "forward">>

StageIndex(stage) == CHOOSE i \in 1..Len(StageOrder) : StageOrder[i] = stage

\* the check a rejection comes from, read off the message of the error
RejectingCheck ==
    CASE outcome.statusMessage = ForbiddenOriginMessage -> "origin"
      [] outcome.statusMessage = "Missing or invalid endpoint URL" -> "endpoint"
      [] outcome.statusMessage = "Invalid endpoint URL format" -> "endpoint"
      [] outcome.statusMessage = "Only HTTPS endpoints are allowed in production" -> "scheme"
      [] outcome.statusMessage = ForbiddenAddressMessage ->
            IF address = NoAddress THEN "literal" ELSE "dns"
      [] outcome.statusMessage = "Could not resolve endpoint hostname" -> "dns"
      [] outcome.statusMessage = "Missing or invalid query" -> "query"
      [] outcome.statusMessage = "Query exceeds maximum length" -> "size"
      [] outcome.statusMessage = "Endpoint URL must contain \"graphql\" in the path" -> "path"
      [] OTHER -> "forward"

Connected == connectedTo # NoAddress /\ connectedTo # LookupFailed

\* the Address Resolver has to reject the target: its hostname is on the
\* blocked list or a private literal, or the address it resolved to is private
ResolverMustReject ==
    \/ /\ hostname # NoAddress
       /\ hostname \in BLOCKED_HOSTNAMES \/ isPrivateIP(hostname)
    \/ /\ address # NoAddress
       /\ isPrivateIP(address)

\* C1: a rejection is terminal.  When a check has rejected the request, no
\* stage after that check has run and nothing a later stage does has been
\* done; when the Address Resolver has to reject the target, sanitizeHeaders
\* has not been called and no outbound request has been sent.
C1_RejectionIsTerminal ==
    /\ (outcome.kind = "error" /\ RejectingCheck # "forward") =>
          /\ pc = "done"
          /\ \A i \in 1..Len(ran) : StageIndex(ran[i]) <= StageIndex(RejectingCheck)
          /\ StageIndex(RejectingCheck) < StageIndex("dns") =>
                (address = NoAddress /\ resolutions = 0)
          /\ fetchHeaders = NoHeaders
          /\ connectedTo = NoAddress
          /\ upstream = NoAnswer
    /\ ResolverMustReject =>
          /\ fetchHeaders = NoHeaders
          /\ connectedTo = NoAddress
          /\ upstream = NoAnswer
          /\ \A i \in 1..Len(ran) : ran[i] \notin {"sanitize", "forward"}

\* a request the resolver rejected on the address the lookup returned
C1_Witness ==
    /\ pc = "done"
    /\ address # NoAddress
    /\ isPrivateIP(address)
    /\ outcome = createError(403, ForbiddenAddressMessage)
    /\ ran[Len(ran)] = "dns"
    /\ fetchHeaders = NoHeaders

\* C2: the hostname is resolved exactly once for a forwarded request, and
\* the outbound connection goes to the address that passed the private-IP
\* check, whatever the resolver answers later.
C2_SingleResolutionPinned ==
    Connected => (resolutions = 1 /\ connectedTo = address)

\* the address ranges the Address Resolver is specified to reject
InForbiddenRange(addr) ==
    LET v4 == IF StartsWith(addr, MappedPrefix) THEN SubSeq(addr, 8, Len(addr)) ELSE addr
        q == Split(v4, ".")
        group == Split(addr, ":")[1]
    IN  IF IsIPv4Literal(v4)
        THEN LET a == Number(q[1])
                 b == Number(q[2])
             IN  \/ a = 10
                 \/ a = 127
                 \/ a = 172 /\ b >= 16 /\ b <= 31
                 \/ a = 192 /\ b = 168
                 \/ a = 169 /\ b = 254
                 \/ a = 0
        ELSE \/ addr = LoopbackV6
             \/ addr = UnspecifiedV6
             \/ /\ Len(group) = 4
                /\ group[1] = "f"
                /\ \/ group[2] \in {"c", "d"}
                   \/ group[2] = "e" /\ group[3] \in {"8", "9", "a", "b"}

\* C3: a request whose hostname is a literal address of a forbidden range,
\* or resolves to one, has ended with 403 ForbiddenAddress once the Address
\* Resolver is through with it, and is not forwarded.
C3_ForbiddenRangesRejected ==
    (/\ pc \in {"validated", "fetching", "done"}
     /\ "literal" \in {ran[i] : i \in 1..Len(ran)}
     /\ InForbiddenRange(hostname) \/ (address # NoAddress /\ InForbiddenRange(address)))
    => /\ outcome = createError(403, ForbiddenAddressMessage)
       /\ connectedTo = NoAddress

\* a request that passes every check but those of the Address Resolver
OtherwiseValid ==
    /\ body.t = "object"
    /\ body.endpoint.t = "string"
    /\ body.endpoint.parses
    /\ body.endpoint.protocol = "https:"
    /\ body.endpoint.pathname = GraphqlPath
    /\ body.query = [t |-> "string", length |-> 1]
    /\ ~dev => origin \in ALLOWED_ORIGINS

\* C4: an otherwise valid request to one of the ten listed hosts is rejected
\* with 403 ForbiddenAddress.
C4_ListedHostsForbidden ==
    (/\ pc \in {"validated", "fetching", "done"}
     /\ OtherwiseValid
     /\ body.endpoint.host \in ListedHosts)
    => outcome = createError(403, ForbiddenAddressMessage)

\* the origin of the request is on the allow-list: the Origin header, or
\* without one the origin of the Referer header
OriginAllowed ==
    \/ origin # None /\ origin \in ALLOWED_ORIGINS
    \/ /\ origin = None
       /\ referer.present
       /\ referer.parses
       /\ (referer.protocol \o "//" \o referer.host) \in ALLOWED_ORIGINS

\* C5: in production a request whose origin is not on the allow-list is
\* rejected with 403 BadOrigin before its body is read.
C5_OriginCheck ==
    (~dev /\ pc # "start" /\ ~OriginAllowed)
    => /\ outcome = createError(403, ForbiddenOriginMessage)
       /\ body = Unread

ForbiddenNames ==
    { <<"h","o","s","t">>, <<"c","o","o","k","i","e">>, <<"s","e","t","-","c","o","o","k","i","e">>, <<"x","-","f","o","r","w","a","r","d","e","d","-","f","o","r">> }

\* C6: every key of the output of sanitizeHeaders other than Content-Type is
\* a key of the input whose lower-cased name is on the allow-list, with the
\* input's string value; Host, Cookie, Set-Cookie and X-Forwarded-For are
\* not in the output in any casing; an entry whose value is no string is
\* not carried over.
C6_OnlyAllowListed ==
    sanPc = "returned" =>
        /\ \A k \in DOMAIN sanitized \ {ContentTypeKey} :
              /\ customHeaders.t = "object"
              /\ k \in DOMAIN customHeaders.map
              /\ ToLowerCase(k) \in ALLOWED_HEADERS
              /\ customHeaders.map[k] = StringValue(sanitized[k])
        /\ \A k \in DOMAIN sanitized : ToLowerCase(k) \notin ForbiddenNames
        /\ customHeaders.t = "object" =>
              \A k \in DOMAIN customHeaders.map :
                  customHeaders.map[k].t # "string" =>
                      \/ k \notin DOMAIN sanitized
                      \/ k = ContentTypeKey /\ sanitized[k] = ApplicationJson

\* an input with an allow-listed header, a forbidden one and one whose value
\* is no string
C6_Witness ==
    /\ sanPc = "returned"
    /\ customHeaders.t = "object"
    /\ \E k \in DOMAIN customHeaders.map : ToLowerCase(k) \in ForbiddenNames
    /\ \E k \in DOMAIN customHeaders.map :
          /\ k # ContentTypeKey
          /\ k \in DOMAIN sanitized
          /\ ToLowerCase(k) # k

\* C7: whatever its input, sanitizeHeaders returns a map in which
\* Content-Type is present with the value application/json.
C7_ContentTypeFixed ==
    sanPc = "returned" =>
        /\ ContentTypeKey \in DOMAIN sanitized
        /\ sanitized[ContentTypeKey] = ApplicationJson

HasControlCharacter(value) == \E i \in 1..Len(value) : value[i] \in {CR, LF, NUL}

\* C8: no value of the output of sanitizeHeaders holds a carriage return, a
\* line feed or a NUL character.
C8_NoControlCharacters ==
    sanPc = "returned" =>
        \A k \in DOMAIN sanitized : ~HasControlCharacter(sanitized[k])

\* C9: when the body of the upstream response parses as JSON, the proxy
\* returns exactly the parsed value, whatever the status of the response.
C9_JsonPassedThrough ==
    (pc = "done" /\ upstream.kind = "response" /\ upstream.body \in JsonTexts)
    => outcome = Returned(JsonValue(upstream.body))

\* C10: when the body of the upstream response does not parse as JSON the
\* proxy returns a failure, which carries the status of an error response;
\* a connection failure or a timeout gives a failure with status 502.
C10_NonJsonIsFailure ==
    /\ (pc = "done" /\ upstream.kind = "response" /\ upstream.body \notin JsonTexts)
       => /\ outcome.kind = "error"
          /\ upstream.status >= 400 => outcome.statusCode = upstream.status
    /\ (pc = "done" /\ upstream.kind = "failure")
       => /\ outcome.kind = "error"
          /\ outcome.statusCode = 502

\* the resolutions that went to the network: lookup() answers an IPv4
\* literal without asking a resolver
NetworkLookups ==
    IF hostname # NoAddress /\ IsIPv4Literal(hostname) THEN 0 ELSE resolutions

\* C11: a request rejected by the query check, the size check or the path
\* check is rejected before any network I/O: no DNS lookup has been made
\* for it and no outbound request.
C11_PayloadRejectedBeforeIO ==
    (pc = "done" /\ outcome.kind = "error" /\ RejectingCheck \in {"query", "size", "path"})
    => /\ NetworkLookups = 0
       /\ connectedTo = NoAddress
       /\ upstream = NoAnswer

\* C12: a query of exactly MAX_QUERY_LENGTH characters passes the size
\* check; a longer one is rejected with 413 and never forwarded; an empty
\* query and a query that is no string are rejected with 400.
C12_QueryLengthBoundary ==
    /\ (body # Unread /\ body.t = "object" /\ body.query.t = "string"
        /\ body.query.length > MAX_QUERY_LENGTH)
       => connectedTo = NoAddress /\ upstream = NoAnswer /\ outcome.kind # "success"
    /\ (pc = "done" /\ Len(ran) > 0 /\ ran[Len(ran)] \in {"query", "size", "path", "forward"})
       => LET query == body.query
          IN  /\ (query.t # "string" \/ query.length = 0)
                 <=> outcome = createError(400, "Missing or invalid query")
              /\ (query.t = "string" /\ query.length > MAX_QUERY_LENGTH)
                 <=> outcome = createError(413, "Query exceeds maximum length")
              /\ (query.t = "string" /\ query.length = MAX_QUERY_LENGTH)
                 => ran[Len(ran)] \in {"path", "forward"}

\* a query of exactly MAX_QUERY_LENGTH characters has been forwarded and
\* answered
C12_Witness ==
    /\ pc = "done"
    /\ body.t = "object"
    /\ body.query.t = "string"
    /\ body.query.length = MAX_QUERY_LENGTH
    /\ outcome.kind = "success"
    /\ Connected

\* a hostname that is a literal address of a forbidden range, bracketed or not
LiteralPrivate(h) ==
    InForbiddenRange(IF IsBracketed(h) THEN SubSeq(h, 2, Len(h) - 1) ELSE h)

\* C13: no DNS lookup is made for a hostname that is on the blocked list or
\* is a literal private address: the literal check rejects the request
\* with 403 before the lookup.
C13_NoLookupForBlockedLiteral ==
    (hostname # NoAddress /\ (hostname \in BLOCKED_HOSTNAMES \/ LiteralPrivate(hostname)))
    => /\ resolutions = 0
       /\ address = NoAddress
       /\ connectedTo = NoAddress
       /\ (pc = "done" /\ ~schemeRejected(body.endpoint.protocol, dev))
          => outcome = createError(403, ForbiddenAddressMessage)

\* C14: one inbound request causes at most one outbound HTTP request: a
\* failed request is not repeated and a redirect is not followed, the
\* answer of the first request is the one passed on.
C14_AtMostOneOutboundRequest ==
    /\ requests <= 1
    /\ requests = 1 <=> "forward" \in {ran[i] : i \in 1..Len(ran)}
    /\ (pc = "done" /\ upstream.kind = "response" /\ upstream.status >= 300
        /\ upstream.status < 400)
       => outcome = Returned(ResponseData(upstream.body))
    /\ (pc = "done" /\ upstream.kind = "failure")
       => outcome.kind = "error"

\* the upstream has answered the one outbound request with a redirect, and
\* the handler has ended
C14_Witness ==
    /\ pc = "done"
    /\ requests = 1
    /\ upstream.kind = "response"
    /\ upstream.status = 302

\* C15: every inbound request eventually ends with a response, whether or
\* not the resolver and the upstream ever answer: the DNS resolution and
\* the outbound round trip are both bounded by the request timeout.
C15_EveryRequestEnds == <>(pc = "done")

\* C16: every request that does not succeed ends with a failure of the
\* taxonomy (400, 403, 413, 502, or the status of the upstream response),
\* never with an unhandled exception, whatever the body and the headers of
\* the request are.
C16_OnlyTaxonomyFailures ==
    (pc = "done" /\ outcome.kind # "success")
    => /\ outcome.kind = "error"
       /\ \/ outcome.statusCode \in {400, 403, 413, 502}
          \/ upstream.kind = "response" /\ outcome.statusCode = upstream.status

\* C17: when the lookup of the hostname fails the request is rejected with
\* 400 (resolution failed), when it succeeds with a private address the
\* request is rejected with 403 (forbidden address), and neither rejection
\* is given in the other case.
C17_LookupOutcomesDistinct ==
    (resolutions >= 1 /\ pc \in {"validated", "fetching", "done"})
    => /\ address = NoAddress
          <=> outcome = createError(400, "Could not resolve endpoint hostname")
       /\ (address # NoAddress /\ InForbiddenRange(address))
          <=> outcome = createError(403, ForbiddenAddressMessage)

\* C18: the variables of the inbound body are forwarded unmodified, whatever
\* JSON value they are (object, array, string, number, boolean, null), and
\* the variables field is left out of the outbound body only when the
\* inbound body carried none.
C18_VariablesForwardedUnmodified ==
    sentPc = "sent" =>
        /\ sentBody.query = inQuery
        /\ sentBody.variables = inVariables

\* C19: in production a request whose endpoint scheme is not https: is
\* rejected with 400 (scheme not allowed) with no DNS lookup and no
\* outbound request; an http: endpoint is forwarded only in development.
C19_HttpsOnlyInProduction ==
    /\ (~dev /\ hostname # NoAddress /\ body.endpoint.protocol # "https:")
       => /\ outcome = createError(400, "Only HTTPS endpoints are allowed in production")
          /\ resolutions = 0
          /\ address = NoAddress
          /\ requests = 0
          /\ connectedTo = NoAddress
    /\ (requests >= 1 /\ body.endpoint.protocol # "https:") => dev

\* production has rejected an http: endpoint at the scheme check
C19_Witness ==
    /\ pc = "done"
    /\ ~dev
    /\ hostname # NoAddress
    /\ body.endpoint.protocol = "http:"
    /\ outcome.statusCode = 400
    /\ ran[Len(ran)] = "scheme"

\* C20: a request is forwarded only if the pathname of the endpoint URL
\* holds the text graphql in lower case; the text in the hostname or in the
\* query string does not count, and a request that fails this check is
\* rejected with 400 (invalid path).
C20_GraphqlInPathname ==
    /\ requests >= 1 => Includes(body.endpoint.pathname, Graphql)
    /\ (pc = "done" /\ ran # <<>> /\ ran[Len(ran)] \in {"path", "forward"})
       => (~Includes(body.endpoint.pathname, Graphql)
           <=> outcome = createError(400, "Endpoint URL must contain \"graphql\" in the path"))

\* a request whose URL has graphql in the hostname and in the query string
\* but not in the path has been rejected by the path check
C20_Witness ==
    /\ pc = "done"
    /\ hostname = GraphqlHost
    /\ body.endpoint.search = GraphqlSearch
    /\ body.endpoint.pathname \in {OtherPath, UpperPath}
    /\ outcome = createError(400, "Endpoint URL must contain \"graphql\" in the path")

\* a decimal number: a non-empty run of decimal digits
IsDecimalNumber(s) == s # <<>> /\ \A i \in 1..Len(s) : IsDigit(s[i])

\* the reference classification: one leading ::ffff: is stripped, and the
\* rest is private exactly when it is four numbers separated by dots of
\* which the first is 0, 10 or 127, or the first is 172 and the second is in
\* 16..31, or the first is 192 and the second is 168
ReferencePrivate(s) ==
    LET rest == IF StartsWith(s, MappedPrefix) THEN SubSeq(s, 8, Len(s)) ELSE s
        q == Split(rest, ".")
    IN  /\ Len(q) = 4
        /\ \A i \in 1..4 : IsDecimalNumber(q[i])
        /\ LET a == DecimalValue(q[1], 0)
               b == DecimalValue(q[2], 0)
           IN  \/ a \in {0, 10, 127}
               \/ a = 172 /\ b >= 16 /\ b <= 31
               \/ a = 192 /\ b = 168

\* C21: isPrivateIP gives on every input the answer of the reference
\* classification.
C21_AgreesWithReference ==
    ipPc = "returned" => (ipResult <=> ReferencePrivate(ipInput))

\* C22: a request that passes the origin check and the scheme check in
\* production has the same outcome when it is handled with the development
\* flag set, against the same DNS and upstream answers: the second handling
\* makes the same lookup and the same outbound request and ends as the
\* first did.
C22_DevRelaxesOnlyOriginAndScheme ==
    phase = "development" =>
        /\ pc \in {"lookup", "validated", "fetching", "done"} => hostname = first.hostname
        /\ pc = "lookup" => first.resolutions >= 1
        /\ pc = "fetching" => first.requests = 1
        /\ pc = "done" => /\ outcome = first.outcome
                          /\ address = first.address
                          /\ resolutions = first.resolutions
                          /\ requests = first.requests
                          /\ fetchHeaders = first.fetchHeaders

\* a request that the literal check rejected in production has been
\* handled again in development mode
C22_Witness ==
    /\ phase = "development"
    /\ pc = "done"
    /\ first.outcome = createError(403, ForbiddenAddressMessage)
    /\ first.resolutions = 0

\* C23: requests handled concurrently share no mutable state: whatever the
\* interleaving of the steps of two requests, a request ends as it ends
\* when it is handled alone with the same inputs and the same DNS and
\* upstream answers.
C23_RequestsIndependent ==
    phase = "alone" =>
        /\ pc \in {"lookup", "validated", "fetching", "done"} => hostname = first.hostname
        /\ pc = "lookup" => first.resolutions >= 1
        /\ pc = "fetching" => first.requests = 1
        /\ pc = "done" => /\ outcome = first.outcome
                          /\ ran = first.ran
                          /\ address = first.address
                          /\ resolutions = first.resolutions
                          /\ requests = first.requests
                          /\ fetchHeaders = first.fetchHeaders

\* a request that was forwarded and answered while another request was
\* under way has been handled again alone
C23_Witness ==
    /\ phase = "alone"
    /\ pc = "done"
    /\ first.requests = 1
    /\ first.outcome.kind = "success"

C26_SupersededFetchIgnored ==
    (inFlight = {} /\ watchedEndpoint # "") =>
        [schema |-> schema, sdl |-> sdl, introspectionDisabled |-> introspectionDisabled]
            = SchemaStateFor(watchedEndpoint)

\* C27: isExecuting is true whenever a request issued by executeQuery is
\* in flight, and false once every executeQuery call has returned, on every
\* path (success, request error, invalid JSON in the variables, no active
\* endpoint or tab).
C27_ExecutingWhileInFlight ==
    isExecuting <=> executing # {}

\* the failure the first failing check gives, the checks taken in the order
\* origin, endpoint, scheme, literal hostname, lookup, query, size, path
NoFailure == [check |-> "none", status |-> 200]

FirstFailingCheck ==
    IF ~dev /\ ~OriginAllowed THEN [check |-> "origin", status |-> 403]
    ELSE IF body.t # "object" THEN [check |-> "endpoint", status |-> 400]
    ELSE IF body.endpoint.t # "string" THEN [check |-> "endpoint", status |-> 400]
    ELSE IF ~body.endpoint.parses THEN [check |-> "endpoint", status |-> 400]
    ELSE IF schemeRejected(body.endpoint.protocol, dev) THEN [check |-> "scheme", status |-> 400]
    ELSE IF hostname \in BLOCKED_HOSTNAMES \/ LiteralPrivate(hostname)
         THEN [check |-> "literal", status |-> 403]
    ELSE IF address = NoAddress THEN [check |-> "dns", status |-> 400]
    ELSE IF InForbiddenRange(address) THEN [check |-> "dns", status |-> 403]
    ELSE IF queryMissing(body.query) THEN [check |-> "query", status |-> 400]
    ELSE IF queryTooLong(body.query) THEN [check |-> "size", status |-> 413]
    ELSE IF ~pathHasGraphql(body.endpoint) THEN [check |-> "path", status |-> 400]
    ELSE NoFailure

\* C28: a request that fails one or several checks ends with the failure of
\* the first failing check in the order origin (403), endpoint present and
\* parsable (400), scheme (400), blocked or literal private hostname (403),
\* lookup failure (400) or resolved private address (403), query present
\* (400), query size (413), path (400).
C28_FirstFailingCheckWins ==
    (pc = "done" /\ FirstFailingCheck # NoFailure)
    => /\ outcome.kind = "error"
       /\ RejectingCheck = FirstFailingCheck.check
       /\ outcome.statusCode = FirstFailingCheck.status

\* C30: starting from an empty endpoints store, after any sequence of
\* addEndpoint, setActiveEndpoint, updateBearerToken and removeEndpoint the
\* active endpoint is the empty string or the URL of exactly one saved
\* endpoint, and no two saved endpoints share a URL.
C30_ActiveEndpointSaved ==
    /\ \/ activeEndpoint = ""
       \/ Cardinality({i \in 1..Len(endpoints) : endpoints[i].url = activeEndpoint}) = 1
    /\ \A i, j \in 1..Len(endpoints) : endpoints[i].url = endpoints[j].url => i = j

\* the active endpoint was removed and the first of the two remaining
\* endpoints, not the one used last, has become the active one
C30_Witness ==
    /\ Len(endpoints) = 2
    /\ activeEndpoint = endpoints[1].url
    /\ endpoints[2].lastUsed > endpoints[1].lastUsed

\* C24: after any sequence of ensureWorkspace, addTab, closeTab,
\* setActiveTab and updateTab every workspace has at least one tab, and
\* closeTab on a workspace with exactly one tab leaves it unchanged.
C24_WorkspaceKeepsATab ==
    \A url \in DOMAIN workspaces : Len(workspaces[url].tabs) >= 1

\* C29: after any sequence of ensureWorkspace, addTab, closeTab,
\* setActiveTab and updateTab the activeTabId of every workspace is the id
\* of one of the tabs of that workspace.
C29_ActiveTabExists ==
    \A url \in DOMAIN workspaces :
        \E i \in 1..Len(workspaces[url].tabs) :
            workspaces[url].tabs[i].id = workspaces[url].activeTabId
====
